---------------------------- MODULE Spec2Model ----------------------------
(***************************************************************************)
(* Model of the GPS-Map scripts (src/main.py, src/main2.py,               *)
(* src/get_coords.py, src/corrds2.py): EXIF GPS extraction, the decimal   *)
(* <-> DMS codec, the colour palette, the map viewport, the rendering of  *)
(* the map and the batch loop of main.                                    *)
(*                                                                         *)
(* Numbers.  An angle is an integer count of 1/360000 degree (0.01 arc    *)
(* second), so 1 degree = 360000, 1 arc minute = 6000, 1 arc second = 100.*)
(* The Python code works on binary floats; the model computes the same    *)
(* expressions exactly on this grid, and where the float result depends   *)
(* on rounding noise (a seconds value exactly half way between two        *)
(* one-decimal values) the model allows both outcomes.                    *)
(*                                                                         *)
(* Text.  A Python str is a sequence of one-character strings.  The two   *)
(* non-ASCII characters the code prints are written "<deg>" (U+00B0) and  *)
(* "<dprime>" (U+2033); each is one character of the text.                *)
(***************************************************************************)
EXTENDS Integers, Sequences, FiniteSets, TLC

VARIABLES
    \* ---- decimal_to_dms / dms_to_decimal harness
    dms_pc,            \* "input" | "formatted" | "parsed"
    dms_d,             \* decimal_degree, in 1/360000 degree
    dms_is_lat,        \* is_lat
    dms_out,           \* what decimal_to_dms returned (components and text)
    dms_back,          \* what dms_to_decimal returned for that text
    \* ---- dms_to_decimal on free text
    parse_pc,          \* "input" | "done"
    parse_parts,       \* the pieces the input text was written from
    parse_text,        \* dms_str
    parse_out,         \* what dms_to_decimal returned
    \* ---- get_gps_coordinates, one call
    gps_pc,            \* "input" | "done"
    gps_run,           \* what exiftool did for the image
    gps_out,           \* what get_gps_coordinates did
    \* ---- generate_unique_colors
    col_pc,            \* "input" | "done"
    col_n,             \* n
    col_out,           \* colors_hex
    \* ---- the viewport of plot_map_with_contextily
    vp_pc,             \* "input" | "done"
    vp_points,         \* the projected points (gdf_3857)
    vp_variant,        \* "main" | "main2": which script's composer ran
    vp_box,            \* the axis limits set
    \* ---- plot_map_with_contextily, one direct call
    plot_pc,           \* "input" | "returned" | "raised"
    plot_locations,    \* photo_locations, the argument
    plot_env,          \* whether the tile request and the file write succeed
    plot_out,          \* what the call printed, drew, saved and left open
    \* ---- main (src/main.py): the batch
    pc,                \* position of main
    images,            \* per image, what exiftool does for it
    idx,               \* index of the next image of the loop
    image_data,        \* rows for the CSV / Excel export
    photo_locations,   \* the locations to render
    console,           \* diagnostics printed so far
    figure,            \* the pyplot figure: "none" | "open" | "closed"
    artifact           \* what plot_map_with_contextily drew and saved

dmsVars   == <<dms_pc, dms_d, dms_is_lat, dms_out, dms_back>>
parseVars == <<parse_pc, parse_parts, parse_text, parse_out>>
gpsVars   == <<gps_pc, gps_run, gps_out>>
colVars   == <<col_pc, col_n, col_out>>
vpVars    == <<vp_pc, vp_points, vp_variant, vp_box>>
plotVars  == <<plot_pc, plot_locations, plot_env, plot_out>>
mainVars  == <<pc, images, idx, image_data, photo_locations, console,
              figure, artifact>>
vars      == <<dmsVars, parseVars, gpsVars, colVars, vpVars, plotVars,
              mainVars>>

---------------------------------------------------------------------------
(* Text helpers *)

Digits == <<"0", "1", "2", "3", "4", "5", "6", "7", "8", "9">>

IsDigit(c) == \E k \in 1..10 : Digits[k] = c

DigitVal(c) == (CHOOSE k \in 1..10 : Digits[k] = c) - 1

\* str.upper() on the letters the model's texts use; other characters are
\* unchanged.
UpperChar(c) ==
    CASE c = "s" -> "S"
      [] c = "w" -> "W"
      [] c = "e" -> "E"
      [] c = "n" -> "N"
      [] c = "t" -> "T"
      [] c = "a" -> "A"
      [] c = "d" -> "D"
      [] c = "g" -> "G"
      [] OTHER   -> c

Upper(s) == [i \in 1..Len(s) |-> UpperChar(s[i])]

Contains(s, c) == \E i \in 1..Len(s) : s[i] = c

\* '%d' of a natural number
RECURSIVE IntToText(_)
IntToText(n) ==
    IF n < 10 THEN <<Digits[n + 1]>>
    ELSE IntToText(n \div 10) \o <<Digits[(n % 10) + 1]>>

Abs(x) == IF x < 0 THEN -x ELSE x

RECURSIVE Pow10(_)
Pow10(k) == IF k = 0 THEN 1 ELSE 10 * Pow10(k - 1)

---------------------------------------------------------------------------
(* dms_to_decimal, src/main.py:15-36 *)

\* The index of the last character of the longest run of digits that starts
\* at i, or i - 1 when s[i] is no digit: the greedy \d* of the pattern.
RECURSIVE DigitRunEnd(_, _)
DigitRunEnd(s, i) ==
    IF i <= Len(s) /\ IsDigit(s[i]) THEN DigitRunEnd(s, i + 1) ELSE i - 1

\* The index of the last character of the match of \d+\.?\d* that starts at
\* i (s[i] is a digit): digits, then a dot if one follows, then digits.
MatchEnd(s, i) ==
    LET j == DigitRunEnd(s, i)
    IN  IF j + 1 <= Len(s) /\ s[j + 1] = "."
        THEN DigitRunEnd(s, j + 2)
        ELSE j

\* re.findall(r'(\d+\.?\d*)', s) scanning from index i: the leftmost match,
\* then the scan resumes after it.
RECURSIVE FindAllFrom(_, _)
FindAllFrom(s, i) ==
    IF i > Len(s) THEN <<>>
    ELSE IF ~IsDigit(s[i]) THEN FindAllFrom(s, i + 1)
    ELSE LET k == MatchEnd(s, i)
         IN  <<SubSeq(s, i, k)>> \o FindAllFrom(s, k + 1)

FindAll(s) == FindAllFrom(s, 1)

\* The digits of a token read as one natural number, the dot skipped.
RECURSIVE DigitsValue(_)
DigitsValue(tok) ==
    IF Len(tok) = 0 THEN 0
    ELSE LET c == tok[Len(tok)]
             rest == SubSeq(tok, 1, Len(tok) - 1)
         IN  IF c = "." THEN DigitsValue(rest)
             ELSE 10 * DigitsValue(rest) + DigitVal(c)

\* The number of digits after the dot of a token (0 without a dot).
FracDigits(tok) ==
    IF Contains(tok, ".")
    THEN Len(tok) - (CHOOSE i \in 1..Len(tok) : tok[i] = ".")
    ELSE 0

\* float(tok) * unit.  Exact for the tokens of the model, which carry at
\* most two decimals while unit is a multiple of 100.
FloatTimes(tok, unit) == (DigitsValue(tok) * unit) \div Pow10(FracDigits(tok))

\* dms_to_decimal looking for 'S' and 'W' in dms_str itself, not in
\* dms_str.upper().
dms_to_decimal_CaseSensitive(dms_str) ==
    LET parts == FindAll(dms_str)
    IN  IF Len(parts) < 3
        THEN [ok |-> FALSE, value |-> 0]
        ELSE LET decimal == FloatTimes(parts[1], 360000)
                            + FloatTimes(parts[2], 6000)
                            + FloatTimes(parts[3], 100)
             IN  IF Contains(dms_str, "S") \/ Contains(dms_str, "W")
                 THEN [ok |-> TRUE, value |-> -decimal]
                 ELSE [ok |-> TRUE, value |-> decimal]

\* dms_to_decimal dividing the seconds by 60, as the minutes.
dms_to_decimal_SecondsOverSixty(dms_str) ==
    LET parts == FindAll(dms_str)
    IN  IF Len(parts) < 3
        THEN [ok |-> FALSE, value |-> 0]
        ELSE LET decimal == FloatTimes(parts[1], 360000)
                            + FloatTimes(parts[2], 6000)
                            + FloatTimes(parts[3], 6000)
             IN  IF Contains(Upper(dms_str), "S") \/ Contains(Upper(dms_str), "W")
                 THEN [ok |-> TRUE, value |-> -decimal]
                 ELSE [ok |-> TRUE, value |-> decimal]

\* dms_to_decimal(dms_str): [ok |-> FALSE] is the ValueError of line 24,
\* value is the float returned, in 1/360000 degree.
dms_to_decimal(dms_str) ==
    LET parts == FindAll(dms_str)
    IN  IF Len(parts) < 3
        THEN [ok |-> FALSE, value |-> 0]
        ELSE LET deg     == FloatTimes(parts[1], 360000)
                 minutes == FloatTimes(parts[2], 6000)
                 seconds == FloatTimes(parts[3], 100)
                 decimal == deg + minutes + seconds
             IN  IF Contains(Upper(dms_str), "S") \/ Contains(Upper(dms_str), "W")
                 THEN [ok |-> TRUE, value |-> -decimal]
                 ELSE [ok |-> TRUE, value |-> decimal]

---------------------------------------------------------------------------
(* decimal_to_dms, src/main.py:38-56 (the same code in src/main2.py:12-30,
   src/corrds2.py:8-26 and, with a double quote for the seconds mark,
   src/get_coords.py:7-24) *)

\* f"{seconds:.1f}" for seconds = h/100: the value in tenths.  The float
\* that reaches the format is the exact value plus rounding noise, so a
\* value exactly half way between two tenths goes either way.
FormatTenths(h) ==
    IF h % 10 < 5 THEN {h \div 10}
    ELSE IF h % 10 > 5 THEN {(h \div 10) + 1}
    ELSE {h \div 10, (h \div 10) + 1}

\* The text of a one-decimal number given in tenths: "4.4", "60.0".
TenthsText(t) == IntToText(t \div 10) \o <<".">> \o IntToText(t % 10)

\* decimal_to_dms with `> 0` for `>= 0` in the choice of the letter.
decimal_to_dms_ZeroIsSouthWest(decimal_degree, is_lat) ==
    LET a            == Abs(decimal_degree)
        degrees      == a \div 360000
        minutes      == (a - degrees * 360000) \div 6000
        seconds      == (a - degrees * 360000) - minutes * 6000
        direction    == IF is_lat
                        THEN (IF decimal_degree > 0 THEN "N" ELSE "S")
                        ELSE (IF decimal_degree > 0 THEN "E" ELSE "W")
    IN  { [degrees |-> degrees, minutes |-> minutes, tenths |-> t,
           direction |-> direction,
           text |-> IntToText(degrees) \o <<"<deg>">> \o IntToText(minutes)
                    \o <<"'">> \o TenthsText(t) \o <<"<dprime>">>
                    \o <<direction>>] : t \in FormatTenths(seconds) }

\* The results decimal_to_dms can return: the three components, the
\* hemisphere letter and the string built from them.
decimal_to_dms(decimal_degree, is_lat) ==
    LET a            == Abs(decimal_degree)
        degrees      == a \div 360000
        minutes      == (a - degrees * 360000) \div 6000
        seconds      == (a - degrees * 360000) - minutes * 6000
        direction    == IF is_lat
                        THEN (IF decimal_degree >= 0 THEN "N" ELSE "S")
                        ELSE (IF decimal_degree >= 0 THEN "E" ELSE "W")
    IN  { [degrees |-> degrees, minutes |-> minutes, tenths |-> t,
           direction |-> direction,
           text |-> IntToText(degrees) \o <<"<deg>">> \o IntToText(minutes)
                    \o <<"'">> \o TenthsText(t) \o <<"<dprime>">>
                    \o <<direction>>] : t \in FormatTenths(seconds) }

---------------------------------------------------------------------------
(* The parts of the model a specification does not exercise stay idle. *)

NoDms   == [degrees |-> 0, minutes |-> 0, tenths |-> 0, direction |-> "",
            text |-> <<>>]
NoValue == [ok |-> FALSE, value |-> 0]
NoParts == [prefix |-> <<>>, lits |-> <<>>, seps |-> <<>>, suffix |-> <<>>]

DmsIdle ==
    /\ dms_pc = "idle" /\ dms_d = 0 /\ dms_is_lat = TRUE
    /\ dms_out = NoDms /\ dms_back = NoValue

ParseIdle ==
    /\ parse_pc = "idle" /\ parse_parts = NoParts
    /\ parse_text = <<>> /\ parse_out = NoValue

---------------------------------------------------------------------------
(* SpecDms: decimal_to_dms on a coordinate, then dms_to_decimal on the text
   it produced. *)

\* The seconds (in 1/100) the inputs carry: the first SecSpan + 1 values of
\* a minute, the last SecSpan + 1 values, and the 4.44" of -15.4179 degrees.
SecSpan == 12

SecSamples == (0..SecSpan) \cup ((5999 - SecSpan)..5999) \cup {444}

DegSamples(is_lat) == IF is_lat THEN {0, 15, 89} ELSE {0, 15, 89, 179}

MinSamples == {0, 25, 59}

\* 89.999 degrees for a latitude, 180 degrees for a longitude.
AxisLimit(is_lat) == IF is_lat THEN 32399640 ELSE 64800000

DmsInputs(is_lat) ==
    { x \in { sg * (dg * 360000 + mi * 6000 + h) :
                sg \in {-1, 1}, dg \in DegSamples(is_lat),
                mi \in MinSamples, h \in SecSamples } :
        Abs(x) <= AxisLimit(is_lat) }

DmsInit ==
    /\ dms_pc = "input"
    /\ dms_is_lat \in BOOLEAN
    /\ dms_d \in DmsInputs(dms_is_lat)
    /\ dms_out = NoDms
    /\ dms_back = NoValue

\* latitude_dms = decimal_to_dms(lat, is_lat=True), src/main.py:306-307
DmsFormat ==
    /\ dms_pc = "input"
    /\ \E r \in decimal_to_dms(dms_d, dms_is_lat) : dms_out' = r
    /\ dms_pc' = "formatted"
    /\ UNCHANGED <<dms_d, dms_is_lat, dms_back>>

\* dms_to_decimal applied to the text just produced
DmsParse ==
    /\ dms_pc = "formatted"
    /\ dms_back' = dms_to_decimal(dms_out.text)
    /\ dms_pc' = "parsed"
    /\ UNCHANGED <<dms_d, dms_is_lat, dms_out>>

---------------------------------------------------------------------------
(* SpecParse: dms_to_decimal on texts written from known pieces: numeric
   literals with their values (in 1/100), separated by non-numeric pieces
   that are each known to carry, or not, an s or a w. *)

Literals ==
    { [text |-> <<"1", "5">>,           hundredths |-> 1500],
      [text |-> <<"4", ".", "3", "0">>, hundredths |-> 430],
      [text |-> <<"7", ".">>,           hundredths |-> 700] }

Seps ==
    { [text |-> <<" ">>,           sw |-> FALSE],
      [text |-> <<" ", "s", " ">>, sw |-> TRUE] }

Words ==
    { [text |-> <<>>,                   sw |-> FALSE],
      [text |-> <<"<dprime>", "N">>,    sw |-> FALSE],
      [text |-> <<"W">>,                sw |-> TRUE],
      [text |-> <<"E", "a", "s", "t">>, sw |-> TRUE] }

\* The most numeric literals a text holds.
MaxTokens == 4

RECURSIVE Interleave(_, _)
Interleave(lits, seps) ==
    IF Len(lits) = 0 THEN <<>>
    ELSE IF Len(lits) = 1 THEN lits[1].text
    ELSE lits[1].text \o seps[1].text \o Interleave(Tail(lits), Tail(seps))

TextOf(parts) ==
    parts.prefix.text \o Interleave(parts.lits, parts.seps) \o parts.suffix.text

ParseInputs ==
    UNION { { [prefix |-> p, lits |-> l, seps |-> sp, suffix |-> q] :
                p \in Words, q \in Words,
                l \in [1..n -> Literals],
                sp \in [1..(IF n = 0 THEN 0 ELSE n - 1) -> Seps] } :
            n \in 0..MaxTokens }

ParseInit ==
    /\ parse_pc = "input"
    /\ parse_parts \in ParseInputs
    /\ parse_text = TextOf(parse_parts)
    /\ parse_out = NoValue

\* dms_to_decimal(dms_str)
ParseCall ==
    /\ parse_pc = "input"
    /\ parse_out' = dms_to_decimal(parse_text)
    /\ parse_pc' = "done"
    /\ UNCHANGED <<parse_parts, parse_text>>

---------------------------------------------------------------------------
(* get_gps_coordinates, src/main.py:58-105 (the same code in
   src/corrds2.py:28-75; src/get_coords.py:26-55 without the sign rule) *)

\* A JSON value of the payload: null / a missing key (info.get gives None),
\* a number (an angle in 1/360000 degree, or any number for a reference),
\* or a string.
None      == [t |-> "none", n |-> 0, s |-> <<>>]
Num(x)    == [t |-> "num",  n |-> x, s |-> <<>>]
Text(str) == [t |-> "text", n |-> 0, s |-> str]

\* What running exiftool on one image gives.
\*   proc:  "oserror"  subprocess.run raises OSError (exiftool cannot be
\*                     launched); "nonzero" it raises CalledProcessError
\*                     (check=True); "ok" it returns stdout.
\*   shape: of stdout. "invalid" is not JSON; "scalar" is JSON but has no
\*          len(); "empty" has len() == 0; "list_scalar" is a list whose
\*          first element is no object; "record" is a list whose first
\*          element is an object with the three values lat, lon, ref.
ExifRun(proc, shape, lat, lon, ref) ==
    [proc |-> proc, shape |-> shape, lat |-> lat, lon |-> lon, ref |-> ref]

NoRun == ExifRun("ok", "empty", None, None, None)

\* The object get_gps_coordinates hands back to its caller: "raise" (an
\* exception leaves the function), "None", or "tuple" (lat, lon); and the
\* diagnostics it printed, in order.
Outcome(kind, lat, lon, prints) ==
    [kind |-> kind, lat |-> lat, lon |-> lon, prints |-> prints]

NoOutcome == Outcome("idle", None, None, <<>>)

\* Python truth of a JSON value: `if lon_ref:`
Truthy(v) ==
    \/ v.t = "num" /\ v.n # 0
    \/ v.t = "text" /\ v.s # <<>>

\* SignRule with a missing reference leaving the longitude as it came.
SignRule_KeepsSignWithoutRef(lat, lon, lon_ref) ==
    IF lon.t # "num" \/ (Truthy(lon_ref) /\ lon_ref.t # "text")
    THEN Outcome("None", None, None, <<"metadata_error">>)
    ELSE IF ~Truthy(lon_ref)
    THEN Outcome("tuple", lat, lon, <<"ref_absent">>)
    ELSE IF Upper(lon_ref.s) = <<"E">>
    THEN Outcome("tuple", lat, Num(Abs(lon.n)), <<>>)
    ELSE Outcome("tuple", lat, Num(-Abs(lon.n)), <<>>)

\* Lines 85-99 of src/main.py: the sign of the longitude from
\* GPSLongitudeRef, and the return.  str.upper of a number and abs of a
\* string raise; `except Exception` (line 103) prints and returns None.
SignRule(lat, lon, lon_ref) ==
    IF Truthy(lon_ref)
    THEN IF lon_ref.t # "text"
         THEN Outcome("None", None, None, <<"metadata_error">>)
         ELSE IF Upper(lon_ref.s) = <<"W">>
         THEN IF lon.t # "num"
              THEN Outcome("None", None, None, <<"metadata_error">>)
              ELSE Outcome("tuple", lat, Num(-Abs(lon.n)), <<>>)
         ELSE IF Upper(lon_ref.s) = <<"E">>
         THEN IF lon.t # "num"
              THEN Outcome("None", None, None, <<"metadata_error">>)
              ELSE Outcome("tuple", lat, Num(Abs(lon.n)), <<>>)
         ELSE IF lon.t # "num"
              THEN Outcome("None", None, None,
                           <<"unknown_ref", "metadata_error">>)
              ELSE Outcome("tuple", lat, Num(-Abs(lon.n)), <<"unknown_ref">>)
    ELSE IF lon.t # "num"
         THEN Outcome("None", None, None, <<"ref_absent", "metadata_error">>)
         ELSE Outcome("tuple", lat, Num(-Abs(lon.n)), <<"ref_absent">>)

\* CoordsMissing as `if not lat or not lon`: a truth test, not `is None`.
CoordsMissing_TruthTest(lat, lon) == ~Truthy(lat) \/ ~Truthy(lon)

\* Lines 81-83: the test for missing coordinates.
CoordsMissing(lat, lon) == lat.t = "none" \/ lon.t = "none"

\* get_gps_coordinates with the JSON error reported as missing EXIF data.
get_gps_coordinates_JsonErrorAsNoExif(run) ==
    IF run.proc = "oserror" THEN Outcome("raise", None, None, <<>>)
    ELSE IF run.proc = "nonzero"
    THEN Outcome("None", None, None, <<"exiftool_error">>)
    ELSE IF run.shape \in {"invalid", "scalar", "empty", "list_scalar"}
    THEN Outcome("None", None, None, <<"no_exif">>)
    ELSE IF CoordsMissing(run.lat, run.lon)
    THEN Outcome("None", None, None, <<"no_gps">>)
    ELSE SignRule(run.lat, run.lon, run.ref)

\* get_gps_coordinates(image_path) of src/main.py, given what exiftool does
\* for the image.
get_gps_coordinates(run) ==
    IF run.proc = "oserror" THEN Outcome("raise", None, None, <<>>)
    ELSE IF run.proc = "nonzero"
    THEN Outcome("None", None, None, <<"exiftool_error">>)
    ELSE IF run.shape = "invalid"
    THEN Outcome("None", None, None, <<"json_error">>)
    ELSE IF run.shape = "scalar"
    THEN Outcome("None", None, None, <<"metadata_error">>)
    ELSE IF run.shape = "empty"
    THEN Outcome("None", None, None, <<"no_exif">>)
    ELSE IF run.shape = "list_scalar"
    THEN Outcome("None", None, None, <<"metadata_error">>)
    ELSE IF CoordsMissing(run.lat, run.lon)
    THEN Outcome("None", None, None, <<"no_gps">>)
    ELSE SignRule(run.lat, run.lon, run.ref)

\* get_gps_coordinates of src/get_coords.py:26-55: no sign rule, and the
\* two "nothing found" returns print nothing.
get_gps_coordinates_csv(run) ==
    IF run.proc = "oserror" THEN Outcome("raise", None, None, <<>>)
    ELSE IF run.proc = "nonzero"
    THEN Outcome("None", None, None, <<"exiftool_error">>)
    ELSE IF run.shape = "invalid"
    THEN Outcome("None", None, None, <<"json_error">>)
    ELSE IF run.shape = "scalar"
    THEN Outcome("None", None, None, <<"metadata_error">>)
    ELSE IF run.shape = "empty"
    THEN Outcome("None", None, None, <<>>)
    ELSE IF run.shape = "list_scalar"
    THEN Outcome("None", None, None, <<"metadata_error">>)
    ELSE IF CoordsMissing(run.lat, run.lon)
    THEN Outcome("None", None, None, <<>>)
    ELSE Outcome("tuple", run.lat, run.lon, <<>>)

---------------------------------------------------------------------------
(* SpecGps: one call of get_gps_coordinates on each kind of exiftool result *)

\* 27 deg 59' 24.00" N = 27.99 degrees; 15 deg 25' 12.0" W = -15.42 degrees
LatText == <<"2", "7", " ", "5", "9", " ", "2", "4", ".", "0", "0", " ", "N">>
LonText == <<"1", "5", " ", "2", "5", " ", "1", "2", ".", "0", " ", "W">>

\* 27.99 and 15.42 degrees, and 0
LatValues == {None, Num(0), Num(10076400), Num(-10076400), Text(LatText)}
LonValues == {None, Num(0), Num(5551200), Num(-5551200), Text(LonText)}

RefValues ==
    { None, Text(<<>>), Text(<<"W">>), Text(<<"w">>), Text(<<"E">>),
      Text(<<"e">>), Text(<<"X">>), Text(<<"W", "e", "s", "t">>), Num(0),
      Num(1) }

FailedRuns ==
    { ExifRun("oserror", "invalid", None, None, None),
      ExifRun("nonzero", "invalid", None, None, None),
      ExifRun("ok", "invalid", None, None, None),
      ExifRun("ok", "scalar", None, None, None),
      ExifRun("ok", "list_scalar", None, None, None) }

RecordRuns ==
    { ExifRun("ok", "record", la, lo, r) :
        la \in LatValues, lo \in LonValues, r \in RefValues }

ExifRuns == FailedRuns \cup {NoRun} \cup RecordRuns

GpsIdle == gps_pc = "idle" /\ gps_run = NoRun /\ gps_out = NoOutcome

GpsInit ==
    /\ gps_pc = "input"
    /\ gps_run \in ExifRuns
    /\ gps_out = NoOutcome

\* coords = get_gps_coordinates(img_path), src/main.py:303
GpsCall ==
    /\ gps_pc = "input"
    /\ gps_out' = get_gps_coordinates(gps_run)
    /\ gps_pc' = "main"
    /\ UNCHANGED gps_run

\* coords = get_gps_coordinates(img_path), src/get_coords.py:104
GpsCallCsv ==
    /\ gps_pc = "input"
    /\ gps_out' = get_gps_coordinates_csv(gps_run)
    /\ gps_pc' = "get_coords"
    /\ UNCHANGED gps_run

---------------------------------------------------------------------------
(* generate_unique_colors, src/main.py:119-132 (defined again, unchanged,
   at src/main.py:262-275 and src/main2.py:32-45, 126-139) *)

\* The s=0.7 and l=0.5 that main passes, in tenths.
Saturation == 7
Lightness == 5

\* colorsys._v(m1, m2, hue) * 255 truncated by int(): one channel of the
\* colour.  hue is a / (3 * n) taken modulo 1; m1 and m2 are in 1/100.
\* Exact rational arithmetic in place of the float arithmetic.
Channel(m1, m2, a, n) ==
    LET h == a % (3 * n)
    IN  IF 2 * h < n
        THEN (255 * (m1 * n + (m2 - m1) * 2 * h)) \div (100 * n)
        ELSE IF 2 * h < 3 * n
        THEN (255 * m2) \div 100
        ELSE IF h < 2 * n
        THEN (255 * (m1 * n + (m2 - m1) * (4 * n - 2 * h))) \div (100 * n)
        ELSE (255 * m1) \div 100

\* colorsys.hls_to_rgb(i/n, l, s), each channel then int(c * 255); l and s
\* in tenths.
hls_to_rgb255(i, n, l, s) ==
    IF s = 0
    THEN <<(255 * l) \div 10, (255 * l) \div 10, (255 * l) \div 10>>
    ELSE LET m2 == IF l <= 5 THEN l * (10 + s) ELSE 10 * l + 10 * s - l * s
             m1 == 20 * l - m2
         IN  <<Channel(m1, m2, 3 * i + n, n),
               Channel(m1, m2, 3 * i, n),
               Channel(m1, m2, 3 * i - n, n)>>

HexDigits ==
    <<"0", "1", "2", "3", "4", "5", "6", "7", "8", "9",
      "a", "b", "c", "d", "e", "f">>

\* '%02x' % v for v in 0..255
Hex2(v) == <<HexDigits[(v \div 16) + 1], HexDigits[(v % 16) + 1]>>

\* '#%02x%02x%02x' % (r, g, b)
HexColor(rgb) == <<"#">> \o Hex2(rgb[1]) \o Hex2(rgb[2]) \o Hex2(rgb[3])

\* generate_unique_colors with linspace(0, 1, n), the default endpoint=True:
\* hue i/(n-1), so that the last hue is 1, the first hue again.
generate_unique_colors_WithEndpoint(n, s, l) ==
    IF n = 0 THEN <<>>
    ELSE IF n = 1 THEN <<HexColor(hls_to_rgb255(0, 1, l, s))>>
    ELSE [k \in 1..n |-> HexColor(hls_to_rgb255(k - 1, n - 1, l, s))]

\* generate_unique_colors(n, s, l): hues = linspace(0, 1, n, endpoint=False)
\* is hue i/n for i = 0..n-1.
generate_unique_colors(n, s, l) ==
    IF n = 0 THEN <<>>
    ELSE [k \in 1..n |-> HexColor(hls_to_rgb255(k - 1, n, l, s))]

---------------------------------------------------------------------------
(* SpecColors: generate_unique_colors(n) for each n up to MaxColors *)

MaxColors == 360

ColIdle == col_pc = "idle" /\ col_n = 0 /\ col_out = <<>>

ColInit ==
    /\ col_pc = "input"
    /\ col_n \in 0..MaxColors
    /\ col_out = <<>>

\* colors_generated = generate_unique_colors(num_photos, s=0.7, l=0.5),
\* src/main.py:324
ColGenerate ==
    /\ col_pc = "input"
    /\ col_out' = generate_unique_colors(col_n, Saturation, Lightness)
    /\ col_pc' = "done"
    /\ UNCHANGED col_n

---------------------------------------------------------------------------
(* The viewport of plot_map_with_contextily: src/main.py:155-173 and
   src/main2.py:65-89.  Projected coordinates are metres on a 20 m grid, so
   that width * 0.1 and (height - width) / 2 are whole numbers. *)

Min(S) == CHOOSE x \in S : \A y \in S : x <= y
Max(S) == CHOOSE x \in S : \A y \in S : x >= y

\* gdf_3857.total_bounds
total_bounds(points) ==
    [minx |-> Min({p[1] : p \in points}), miny |-> Min({p[2] : p \in points}),
     maxx |-> Max({p[1] : p \in points}), maxy |-> Max({p[2] : p \in points})]

Box(minx, miny, maxx, maxy) ==
    [minx |-> minx, miny |-> miny, maxx |-> maxx, maxy |-> maxy]

\* The buffer used for an axis of zero extent, src/main.py:158-159
DefaultBuffer == 1000

\* src/main.py:155-165: the buffered limits
viewport_main(points) ==
    LET b          == total_bounds(points)
        width      == b.maxx - b.minx
        height     == b.maxy - b.miny
        buffer_x   == IF width # 0 THEN width \div 10 ELSE DefaultBuffer
        buffer_y   == IF height # 0 THEN height \div 10 ELSE DefaultBuffer
        max_buffer == IF buffer_x >= buffer_y THEN buffer_x ELSE buffer_y
    IN  Box(b.minx - max_buffer, b.miny - max_buffer,
            b.maxx + max_buffer, b.maxy + max_buffer)

\* src/main2.py:65-82: the squared and buffered limits
viewport_main2(points) ==
    LET b            == total_bounds(points)
        width        == b.maxx - b.minx
        height       == b.maxy - b.miny
        minx         == IF height > width
                        THEN b.minx - (height - width) \div 2 ELSE b.minx
        maxx         == IF height > width
                        THEN b.maxx + (height - width) \div 2 ELSE b.maxx
        miny         == IF height > width
                        THEN b.miny ELSE b.miny - (width - height) \div 2
        maxy         == IF height > width
                        THEN b.maxy ELSE b.maxy + (width - height) \div 2
        max_meassure == IF height > width THEN height ELSE width
        buffer       == max_meassure \div 10
    IN  Box(minx - buffer, miny - buffer, maxx + buffer, maxy + buffer)

---------------------------------------------------------------------------
(* SpecViewport: the limits each composer sets for a set of points *)

\* Grid coordinates run over 0..MaxCoord steps of 20 m; a point set has at
\* most MaxPoints points.
MaxCoord == 3
MaxPoints == 2

GridPoints == { <<20 * i, 20 * j>> : i \in 0..MaxCoord, j \in 0..MaxCoord }

PointSets ==
    { ps \in SUBSET GridPoints : Cardinality(ps) \in 1..MaxPoints }

NoBox == Box(0, 0, 0, 0)

VpIdle ==
    /\ vp_pc = "idle" /\ vp_points = {} /\ vp_variant = "none"
    /\ vp_box = NoBox

VpInit ==
    /\ vp_pc = "input"
    /\ vp_points \in PointSets
    /\ vp_variant = "none"
    /\ vp_box = NoBox

\* ax.set_xlim / ax.set_ylim of src/main.py:172-173
VpMain ==
    /\ vp_pc = "input"
    /\ vp_box' = viewport_main(vp_points)
    /\ vp_variant' = "main"
    /\ vp_pc' = "done"
    /\ UNCHANGED vp_points

\* ax.set_xlim / ax.set_ylim of src/main2.py:88-89
VpMain2 ==
    /\ vp_pc = "input"
    /\ vp_box' = viewport_main2(vp_points)
    /\ vp_variant' = "main2"
    /\ vp_pc' = "done"
    /\ UNCHANGED vp_points

---------------------------------------------------------------------------
(* plot_map_with_contextily, src/main.py:134-210 and src/main2.py:47-123 *)

\* A row of photo_locations: (lat, lon, filename, color).  main appends
\* (lat, lon, filename, None) and sets the colour later; a label is the
\* index of the image in its batch.
Location(lat, lon, label, color) ==
    [lat |-> lat, lon |-> lon, label |-> label, color |-> color]

\* None as the colour of a row
NoColor == <<>>

\* What a call draws on the axes and writes to output_file.
NoArtifact ==
    [markers |-> <<>>, legend |-> <<>>, basemap |-> FALSE, saved |-> FALSE]

\* src/main.py:184-186: one ax.plot per row of the frame, in row order, with
\* markerfacecolor = row['Color']
Markers(locations) ==
    [k \in 1..Len(locations) |->
        [label |-> locations[k].label, color |-> locations[k].color]]

\* src/main.py:193-197: one Line2D per row of photo_locations, in order, with
\* label = row[2] and markerfacecolor = row[3]
LegendElements(locations) ==
    [k \in 1..Len(locations) |->
        [label |-> locations[k].label, color |-> locations[k].color]]

\* The same without the test of lines 141-143.
plot_map_with_contextily_NoEmptyCheck(locations, basemap_ok, save_ok) ==
    [prints   |-> (<<IF basemap_ok THEN "basemap_added" ELSE "basemap_error">>
                    \o <<"legend_added">>)
                    \o (IF save_ok THEN <<"map_saved">> ELSE <<>>),
     figure   |-> IF save_ok THEN "closed" ELSE "open",
     artifact |-> [markers |-> Markers(locations),
                   legend  |-> Markers(locations),
                   basemap |-> basemap_ok,
                   saved   |-> save_ok],
     raised   |-> ~save_ok]

\* The same without the try / except of lines 177-181: a failed tile request
\* leaves the call.
plot_map_with_contextily_BasemapUncaught(locations, basemap_ok, save_ok) ==
    IF locations = <<>>
    THEN [prints |-> <<"no_locations">>, figure |-> "none",
          artifact |-> NoArtifact, raised |-> FALSE]
    ELSE IF ~basemap_ok
    THEN [prints |-> <<>>, figure |-> "open",
          artifact |-> NoArtifact, raised |-> TRUE]
    ELSE [prints   |-> <<"basemap_added", "legend_added">>
                        \o (IF save_ok THEN <<"map_saved">> ELSE <<>>),
          figure   |-> IF save_ok THEN "closed" ELSE "open",
          artifact |-> [markers |-> Markers(locations),
                        legend  |-> Markers(locations),
                        basemap |-> TRUE,
                        saved   |-> save_ok],
          raised   |-> ~save_ok]

\* The same with the legend in the opposite order.
plot_map_with_contextily_LegendReversed(locations, basemap_ok, save_ok) ==
    IF locations = <<>>
    THEN [prints |-> <<"no_locations">>, figure |-> "none",
          artifact |-> NoArtifact, raised |-> FALSE]
    ELSE [prints   |-> (<<IF basemap_ok THEN "basemap_added"
                                        ELSE "basemap_error">>
                         \o <<"legend_added">>)
                         \o (IF save_ok THEN <<"map_saved">> ELSE <<>>),
          figure   |-> IF save_ok THEN "closed" ELSE "open",
          artifact |-> [markers |-> Markers(locations),
                        legend  |-> [k \in 1..Len(locations) |->
                                       Markers(locations)
                                           [Len(locations) + 1 - k]],
                        basemap |-> basemap_ok,
                        saved   |-> save_ok],
          raised   |-> ~save_ok]

\* plot_map_with_contextily(photo_locations, output_file, title).  The tile
\* request of ctx.add_basemap succeeds or fails (basemap_ok) and so does the
\* write of plt.savefig (save_ok): both depend on the network and the file
\* system, not on the arguments.
\*   lines 141-143  nothing to plot: one diagnostic, return
\*   line  169      plt.subplots: the figure is open
\*   lines 177-181  add_basemap inside try / except Exception: a failure is
\*                  printed and the call goes on
\*   lines 184-200  the markers and the legend
\*   line  208      plt.savefig: nothing catches its exception, so
\*   line  209      plt.close() is reached only when the file was written
\* The result says what was printed, the state the figure is left in, what
\* was drawn and saved, and whether an exception leaves the call.
plot_map_with_contextily(locations, basemap_ok, save_ok) ==
    IF locations = <<>>
    THEN [prints |-> <<"no_locations">>, figure |-> "none",
          artifact |-> NoArtifact, raised |-> FALSE]
    ELSE [prints   |-> (<<IF basemap_ok THEN "basemap_added"
                                        ELSE "basemap_error">>
                         \o <<"legend_added">>)
                         \o (IF save_ok THEN <<"map_saved">> ELSE <<>>),
          figure   |-> IF save_ok THEN "closed" ELSE "open",
          artifact |-> [markers |-> Markers(locations),
                        legend  |-> LegendElements(locations),
                        basemap |-> basemap_ok,
                        saved   |-> save_ok],
          raised   |-> ~save_ok]

---------------------------------------------------------------------------
(* SpecPlot: one direct call of plot_map_with_contextily *)

\* The most rows the argument of a direct call holds.
MaxPlotted == 3

\* (lat, lon) of the rows, in 1/360000 degree
PlotPoints == { <<10076400, -5551200>>, <<-10076400, 5551200>> }

PlotColors ==
    { <<"#", "d", "8", "2", "6", "2", "6">>,
      <<"#", "2", "6", "d", "8", "d", "8">> }

\* Every list of 0..MaxPlotted rows, the empty list included; row k is
\* labelled k.
PlotInputs ==
    UNION { { [k \in 1..n |-> Location(f[k][1][1], f[k][1][2], k, f[k][2])] :
                f \in [1..n -> PlotPoints \X PlotColors] } :
            n \in 0..MaxPlotted }

NoEnv == [basemap_ok |-> FALSE, save_ok |-> FALSE]

NoPlotOut ==
    [prints |-> <<>>, figure |-> "none", artifact |-> NoArtifact,
     raised |-> FALSE]

PlotIdle ==
    /\ plot_pc = "idle" /\ plot_locations = <<>> /\ plot_env = NoEnv
    /\ plot_out = NoPlotOut

PlotInit ==
    /\ plot_pc = "input"
    /\ plot_locations \in PlotInputs
    /\ plot_env = NoEnv
    /\ plot_out = NoPlotOut

PlotCall ==
    /\ plot_pc = "input"
    /\ \E basemap_ok \in BOOLEAN, save_ok \in BOOLEAN :
         LET out == plot_map_with_contextily(plot_locations, basemap_ok,
                                             save_ok)
         IN  /\ plot_env' = [basemap_ok |-> basemap_ok, save_ok |-> save_ok]
             /\ plot_out' = out
             /\ plot_pc' = IF out.raised THEN "raised" ELSE "returned"
    /\ UNCHANGED plot_locations

---------------------------------------------------------------------------
(* main, src/main.py:277-341, with plot_map_with_contextily,
   src/main.py:134-210 *)

\* The most images a batch holds.
MaxImages == 3

\* What exiftool does for the images of a batch.
MainRuns ==
    { ExifRun("oserror", "invalid", None, None, None),
      ExifRun("nonzero", "invalid", None, None, None),
      ExifRun("ok", "invalid", None, None, None),
      ExifRun("ok", "record", None, None, None),
      ExifRun("ok", "record", Num(10076400), Num(5551200), Text(<<"W">>)),
      ExifRun("ok", "record", Num(-10076400), Num(5551200), Text(<<"E">>)),
      ExifRun("ok", "record", Text(LatText), Num(5551200), Text(<<"W">>)),
      ExifRun("ok", "record", Num(10076400), Text(LonText), Text(<<"W">>)) }

Batches == UNION { [1..n -> MainRuns] : n \in 0..MaxImages }

MainIdle ==
    /\ pc = "idle" /\ images = <<>> /\ idx = 0 /\ image_data = <<>>
    /\ photo_locations = <<>> /\ console = <<>> /\ figure = "none"
    /\ artifact = NoArtifact

MainInit ==
    /\ pc = "scan"
    /\ images \in Batches
    /\ idx = 1
    /\ image_data = <<>>
    /\ photo_locations = <<>>
    /\ console = <<>>
    /\ figure = "none"
    /\ artifact = NoArtifact

\* src/main.py:289-294: images = scan_images(...); nothing to do without
\* images.
ScanImages ==
    /\ pc = "scan"
    /\ IF images = <<>>
       THEN pc' = "done" /\ console' = Append(console, "no_images")
       ELSE pc' = "loop" /\ UNCHANGED console
    /\ UNCHANGED <<images, idx, image_data, photo_locations, figure, artifact>>

\* src/main.py:300-316: one turn of the loop.  An exception that leaves
\* get_gps_coordinates, or that decimal_to_dms raises on a latitude that is
\* no number (abs of a str), leaves main: nothing in main catches it.
ProcessImage ==
    /\ pc = "loop"
    /\ idx <= Len(images)
    /\ LET coords == get_gps_coordinates(images[idx])
       IN  IF coords.kind = "raise"
           THEN /\ pc' = "crashed"
                /\ console' = console \o coords.prints
                /\ UNCHANGED <<idx, image_data, photo_locations>>
           ELSE IF coords.kind = "tuple" /\ coords.lat.t # "num"
           THEN /\ pc' = "crashed"
                /\ console' = console \o coords.prints
                /\ UNCHANGED <<idx, image_data, photo_locations>>
           ELSE IF coords.kind = "tuple"
           THEN /\ \E la \in decimal_to_dms(coords.lat.n, TRUE),
                      lo \in decimal_to_dms(coords.lon.n, FALSE) :
                      image_data' = Append(image_data,
                          [filename |-> idx, latitude_dms |-> la.text,
                           longitude_dms |-> lo.text])
                /\ photo_locations' = Append(photo_locations,
                       Location(coords.lat.n, coords.lon.n, idx, NoColor))
                /\ console' = (console \o coords.prints) \o <<"coords_found">>
                /\ idx' = idx + 1
                /\ pc' = "loop"
           ELSE /\ console' = (console \o coords.prints) \o <<"no_coords">>
                /\ idx' = idx + 1
                /\ pc' = "loop"
                /\ UNCHANGED <<image_data, photo_locations>>
    /\ UNCHANGED <<images, figure, artifact>>

\* src/main.py:318-320: after the loop, nothing to render without a location
EndLoop ==
    /\ pc = "loop"
    /\ idx > Len(images)
    /\ IF photo_locations = <<>>
       THEN pc' = "done" /\ console' = Append(console, "no_gps_images")
       ELSE pc' = "colors" /\ UNCHANGED console
    /\ UNCHANGED <<images, idx, image_data, photo_locations, figure, artifact>>

\* The same with the palette read one position further on.
AssignColors_ShiftedIndex ==
    /\ pc = "colors"
    /\ LET num_photos       == Len(photo_locations)
           colors_generated == generate_unique_colors(num_photos, Saturation,
                                                      Lightness)
       IN  photo_locations' =
               [k \in 1..num_photos |->
                   Location(photo_locations[k].lat, photo_locations[k].lon,
                            photo_locations[k].label,
                            IF k + 1 <= Len(colors_generated)
                            THEN colors_generated[k + 1]
                            ELSE <<"#", "0", "0", "0", "0", "0", "0">>)]
    /\ pc' = "plot"
    /\ UNCHANGED <<images, idx, image_data, console, figure, artifact>>

\* src/main.py:323-330: colours by position
AssignColors ==
    /\ pc = "colors"
    /\ LET num_photos       == Len(photo_locations)
           colors_generated == generate_unique_colors(num_photos, Saturation,
                                                      Lightness)
       IN  photo_locations' =
               [k \in 1..num_photos |->
                   Location(photo_locations[k].lat, photo_locations[k].lon,
                            photo_locations[k].label,
                            IF k <= Len(colors_generated)
                            THEN colors_generated[k]
                            ELSE <<"#", "0", "0", "0", "0", "0", "0">>)]
    /\ pc' = "plot"
    /\ UNCHANGED <<images, idx, image_data, console, figure, artifact>>

\* src/main.py:333: plot_map_with_contextily(photo_locations, ...); an
\* exception that leaves the call leaves main.
PlotMap ==
    /\ pc = "plot"
    /\ \E basemap_ok \in BOOLEAN, save_ok \in BOOLEAN :
         LET out == plot_map_with_contextily(photo_locations, basemap_ok,
                                             save_ok)
         IN  /\ artifact' = out.artifact
             /\ console' = console \o out.prints
             /\ figure' = out.figure
             /\ pc' = IF out.raised THEN "crashed" ELSE "export"
    /\ UNCHANGED <<images, idx, image_data, photo_locations>>

\* src/main.py:336-341: generate_csv, generate_excel
Export ==
    /\ pc = "export"
    /\ pc' = "done"
    /\ console' = Append(console, "completed")
    /\ UNCHANGED <<images, idx, image_data, photo_locations, figure, artifact>>

---------------------------------------------------------------------------
(* The specifications *)

Init ==
    MainInit /\ DmsIdle /\ ParseIdle /\ GpsIdle /\ ColIdle /\ VpIdle /\ PlotIdle

Next ==
    \/ ScanImages   /\ UNCHANGED <<dmsVars, parseVars, gpsVars, colVars, vpVars, plotVars>>
    \/ ProcessImage /\ UNCHANGED <<dmsVars, parseVars, gpsVars, colVars, vpVars, plotVars>>
    \/ EndLoop      /\ UNCHANGED <<dmsVars, parseVars, gpsVars, colVars, vpVars, plotVars>>
    \/ AssignColors /\ UNCHANGED <<dmsVars, parseVars, gpsVars, colVars, vpVars, plotVars>>
    \/ PlotMap      /\ UNCHANGED <<dmsVars, parseVars, gpsVars, colVars, vpVars, plotVars>>
    \/ Export       /\ UNCHANGED <<dmsVars, parseVars, gpsVars, colVars, vpVars, plotVars>>

Spec == Init /\ [][Next]_vars

InitDms ==
    DmsInit /\ MainIdle /\ ParseIdle /\ GpsIdle /\ ColIdle /\ VpIdle /\ PlotIdle

NextDms ==
    \/ DmsFormat /\ UNCHANGED <<mainVars, parseVars, gpsVars, colVars, vpVars, plotVars>>
    \/ DmsParse  /\ UNCHANGED <<mainVars, parseVars, gpsVars, colVars, vpVars, plotVars>>

SpecDms == InitDms /\ [][NextDms]_vars

InitParse ==
    ParseInit /\ MainIdle /\ DmsIdle /\ GpsIdle /\ ColIdle /\ VpIdle /\ PlotIdle

NextParse ==
    ParseCall /\ UNCHANGED <<mainVars, dmsVars, gpsVars, colVars, vpVars, plotVars>>

SpecParse == InitParse /\ [][NextParse]_vars

InitGps ==
    GpsInit /\ MainIdle /\ DmsIdle /\ ParseIdle /\ ColIdle /\ VpIdle /\ PlotIdle

NextGps ==
    \/ GpsCall    /\ UNCHANGED <<mainVars, dmsVars, parseVars, colVars, vpVars, plotVars>>
    \/ GpsCallCsv /\ UNCHANGED <<mainVars, dmsVars, parseVars, colVars, vpVars, plotVars>>

SpecGps == InitGps /\ [][NextGps]_vars

InitColors ==
    ColInit /\ MainIdle /\ DmsIdle /\ ParseIdle /\ GpsIdle /\ VpIdle /\ PlotIdle

NextColors ==
    ColGenerate /\ UNCHANGED <<mainVars, dmsVars, parseVars, gpsVars, vpVars, plotVars>>

SpecColors == InitColors /\ [][NextColors]_vars

InitPlot ==
    PlotInit /\ MainIdle /\ DmsIdle /\ ParseIdle /\ GpsIdle /\ ColIdle /\ VpIdle

NextPlot ==
    PlotCall /\ UNCHANGED <<mainVars, dmsVars, parseVars, gpsVars, colVars, vpVars>>

SpecPlot == InitPlot /\ [][NextPlot]_vars

InitViewport ==
    VpInit /\ MainIdle /\ DmsIdle /\ ParseIdle /\ GpsIdle /\ ColIdle /\ PlotIdle

NextViewport ==
    \/ VpMain  /\ UNCHANGED <<mainVars, dmsVars, parseVars, gpsVars, colVars, plotVars>>
    \/ VpMain2 /\ UNCHANGED <<mainVars, dmsVars, parseVars, gpsVars, colVars, plotVars>>

SpecViewport == InitViewport /\ [][NextViewport]_vars

---------------------------------------------------------------------------
(* Claims about get_gps_coordinates, checked under SpecGps *)

IsRecord(run) == run.proc = "ok" /\ run.shape = "record"

\* GPSLongitudeRef is missing or is a string, as EXIF defines it.
RefIsTextOrAbsent(run) == run.ref.t \in {"none", "text"}

\* C1: when GPSLatitude and GPSLongitude are both numbers,
\* get_gps_coordinates of main.py returns (lat, lon') with lat unchanged and
\* lon' = +|lon| if GPSLongitudeRef is 'E' in either letter case, and
\* lon' = -|lon| otherwise (W, another string, empty or absent), whatever
\* the sign of the longitude that came in.
C1_LongitudeSignResolved ==
    (/\ gps_pc = "main"
     /\ IsRecord(gps_run)
     /\ gps_run.lat.t = "num" /\ gps_run.lon.t = "num"
     /\ RefIsTextOrAbsent(gps_run))
    => /\ gps_out.kind = "tuple"
       /\ gps_out.lat = gps_run.lat
       /\ gps_out.lon.t = "num"
       /\ gps_out.lon.n =
            IF gps_run.ref.s \in {<<"E">>, <<"e">>}
            THEN Abs(gps_run.lon.n)
            ELSE -Abs(gps_run.lon.n)

\* A positive longitude with no reference came back negative.
C1_Witness ==
    /\ gps_pc = "main"
    /\ gps_run = ExifRun("ok", "record", Num(10076400), Num(5551200), None)
    /\ gps_out.kind = "tuple"
    /\ gps_out.lon = Num(-5551200)

\* C2: a payload without GPSLatitude or without GPSLongitude, or an empty
\* payload list, gives None; a returned point has both coordinates; and a
\* coordinate of exactly 0 counts as present (main.py and get_coords.py).
C2_BothCoordinatesOrNone ==
    gps_pc \in {"main", "get_coords"}
    => /\ (/\ gps_run.proc = "ok"
           /\ \/ gps_run.shape = "empty"
              \/ /\ gps_run.shape = "record"
                 /\ (gps_run.lat.t = "none" \/ gps_run.lon.t = "none"))
          => gps_out.kind = "None"
       /\ gps_out.kind = "tuple"
          => gps_out.lat.t # "none" /\ gps_out.lon.t # "none"
       /\ (/\ IsRecord(gps_run)
           /\ gps_run.lat.t = "num" /\ gps_run.lon.t = "num"
           /\ RefIsTextOrAbsent(gps_run)
           /\ (gps_run.lat.n = 0 \/ gps_run.lon.n = 0))
          => /\ gps_out.kind = "tuple"
             /\ gps_out.lat = gps_run.lat
             /\ Abs(gps_out.lon.n) = Abs(gps_run.lon.n)

\* A payload with a longitude and no latitude gave None.
C2_Witness ==
    /\ gps_pc = "main"
    /\ IsRecord(gps_run)
    /\ gps_run.lat.t = "none" /\ gps_run.lon.t = "num"
    /\ gps_out.kind = "None"

\* The decimal value of a coordinate field that is a number or DMS text.
ParsedField(v) == IF v.t = "text" THEN dms_to_decimal(v.s).value ELSE v.n

\* C3 as claimed: a payload whose latitude or longitude is DMS text gives a
\* point holding the value dms_to_decimal parses from the text, numeric
\* fields unchanged.
C3_TextFieldsParsed ==
    (/\ gps_pc = "main"
     /\ IsRecord(gps_run)
     /\ gps_run.lat.t \in {"num", "text"} /\ gps_run.lon.t \in {"num", "text"}
     /\ RefIsTextOrAbsent(gps_run))
    => /\ gps_out.kind = "tuple"
       /\ gps_out.lat = Num(ParsedField(gps_run.lat))
       /\ gps_out.lon.t = "num"
       /\ Abs(gps_out.lon.n) = Abs(ParsedField(gps_run.lon))

\* What the caller of get_gps_coordinates holds afterwards.
Returned(out) == <<out.kind, out.lat, out.lon>>

\* MetadataError: exiftool could not be launched or exited non-zero, or its
\* output is no JSON or not the list of objects expected.
IsMetadataError(run) ==
    \/ run.proc \in {"oserror", "nonzero"}
    \/ run.proc = "ok" /\ run.shape \in {"invalid", "scalar", "list_scalar"}

\* NoCoordinates: a valid payload without GPS fields.
IsNoCoordinates(run) ==
    /\ run.proc = "ok"
    /\ \/ run.shape = "empty"
       \/ run.shape = "record" /\ CoordsMissing(run.lat, run.lon)

\* C4 as claimed: what get_gps_coordinates returns for a MetadataError is
\* never what it returns for a payload with NoCoordinates.
C4_ErrorDistinctFromNoCoordinates ==
    (gps_pc = "main" /\ IsMetadataError(gps_run))
    => \A r \in ExifRuns :
          IsNoCoordinates(r)
          => Returned(get_gps_coordinates(r)) # Returned(gps_out)

ErrorPrints == {"exiftool_error", "json_error", "metadata_error"}
NoCoordinatesPrints == {"no_exif", "no_gps"}

\* C4 amended: for a non-zero exit, undecodable output or an ill-shaped
\* payload, and for a valid payload without GPS fields, main.py's
\* get_gps_coordinates returns the same value, None; only the diagnostic it
\* prints tells them apart (one error message against one "not found"
\* message).  Only a failure to launch exiftool differs for the caller: the
\* exception leaves the function.
C4_SameNoneDifferentDiagnostic ==
    gps_pc = "main"
    => /\ (IsMetadataError(gps_run) /\ gps_run.proc # "oserror")
          => /\ gps_out.kind = "None"
             /\ Len(gps_out.prints) = 1
             /\ gps_out.prints[1] \in ErrorPrints
       /\ IsNoCoordinates(gps_run)
          => /\ gps_out.kind = "None"
             /\ Len(gps_out.prints) = 1
             /\ gps_out.prints[1] \in NoCoordinatesPrints
       /\ gps_run.proc = "oserror" => gps_out.kind = "raise"

\* Output that is no JSON gave None with the JSON error message.
C4_Witness ==
    /\ gps_pc = "main"
    /\ gps_run = ExifRun("ok", "invalid", None, None, None)
    /\ gps_out.kind = "None"
    /\ gps_out.prints = <<"json_error">>

---------------------------------------------------------------------------
(* Claim about the batch loop of main, checked under Spec *)

\* The image has GPS data get_gps_coordinates accepts: two numbers.
HasValidGps(run) ==
    /\ IsRecord(run)
    /\ run.lat.t = "num" /\ run.lon.t = "num"
    /\ RefIsTextOrAbsent(run)

\* C5 as claimed: whatever exiftool does for an image, the loop goes on to
\* the images that remain (main is never left while images remain), and
\* once the loop is over every image with valid GPS data is in
\* photo_locations.
C5_NoFailureAbortsBatch ==
    /\ pc = "crashed" => idx > Len(images)
    /\ (pc # "scan" /\ idx > Len(images))
       => \A i \in 1..Len(images) :
             HasValidGps(images[i])
             => \E k \in 1..Len(photo_locations) :
                   photo_locations[k].label = i

---------------------------------------------------------------------------
(* Claims about the DMS codec, checked under SpecDms and SpecParse *)

Sign(x) == IF x > 0 THEN 1 ELSE IF x < 0 THEN -1 ELSE 0

\* C6 as claimed: dms_to_decimal(decimal_to_dms(d, axis)) is within 1/36000
\* degree (10 units) of d and has the sign of d when d is not 0.
C6_RoundTripKeepsSign ==
    dms_pc = "parsed"
    => /\ dms_back.ok
       /\ Abs(dms_back.value - dms_d) <= 10
       /\ dms_d # 0 => Sign(dms_back.value) = Sign(dms_d)

\* C6 amended: dms_to_decimal(decimal_to_dms(d, axis)) is within 1/36000
\* degree of d, also when the seconds round up to 60.0, and never has the
\* sign opposite to d: it has the sign of d unless it is 0, and it is 0 only
\* for |d| <= 0.05 arc second (5 units), whose seconds print as 0.0.
C6_RoundTripWithinTolerance ==
    dms_pc = "parsed"
    => /\ dms_back.ok
       /\ Abs(dms_back.value - dms_d) <= 10
       /\ dms_back.value # 0 => Sign(dms_back.value) = Sign(dms_d)
       /\ dms_back.value = 0 => Abs(dms_d) <= 5

\* A negative coordinate whose seconds printed as 60.0 was read back.
C6_Witness ==
    /\ dms_pc = "parsed"
    /\ dms_d < 0
    /\ dms_out.tenths = 600
    /\ dms_back.ok
    /\ dms_back.value < 0

\* C7: decimal_to_dms gives degrees = the whole degrees of |d|, minutes =
\* the whole minutes of the rest, seconds = what remains rounded to one
\* decimal, then N/S for a latitude and E/W for a longitude, N and E for
\* d >= 0; the text holds these three numbers in this order and ends with
\* the letter.  0 as latitude gives 0, 0, 0.0, N; -15.4179 as longitude
\* gives 15, 25, 4.4, W.
C7_DmsComponents ==
    dms_pc \in {"formatted", "parsed"}
    => LET a     == Abs(dms_d)
           o     == dms_out
           rest  == a - o.degrees * 360000
           secs  == rest - o.minutes * 6000
           parts == FindAll(o.text)
       IN  /\ o.degrees >= 0 /\ 0 <= rest /\ rest < 360000
           /\ o.minutes >= 0 /\ 0 <= secs /\ secs < 6000
           /\ Abs(10 * o.tenths - secs) <= 5
           /\ o.direction = IF dms_is_lat
                            THEN (IF dms_d >= 0 THEN "N" ELSE "S")
                            ELSE (IF dms_d >= 0 THEN "E" ELSE "W")
           /\ Len(parts) = 3
           /\ FloatTimes(parts[1], 1) = o.degrees
           /\ FloatTimes(parts[2], 1) = o.minutes
           /\ FloatTimes(parts[3], 10) = o.tenths
           /\ o.text[Len(o.text)] = o.direction
           /\ (dms_d = 0 /\ dms_is_lat)
              => o.text = <<"0", "<deg>", "0", "'", "0", ".", "0",
                            "<dprime>", "N">>
           /\ (dms_d = -5550444 /\ ~dms_is_lat)
              => /\ o.degrees = 15 /\ o.minutes = 25 /\ o.tenths = 44
                 /\ o.direction = "W"

\* -15.4179 degrees as longitude was formatted.
C7_Witness ==
    /\ dms_pc = "formatted"
    /\ dms_d = -5550444 /\ ~dms_is_lat
    /\ dms_out.text = <<"1", "5", "<deg>", "2", "5", "'", "4", ".", "4",
                        "<dprime>", "W">>

\* Some non-numeric piece of the text carries an s or a w.
PartsCarrySW(parts) ==
    \/ parts.prefix.sw
    \/ parts.suffix.sw
    \/ \E k \in 1..Len(parts.seps) : parts.seps[k].sw

\* C8: dms_to_decimal raises when the text holds fewer than three numbers;
\* otherwise it returns deg + min/60 + sec/3600 of the first three, negated
\* exactly when the text holds an s or a w in either letter case anywhere,
\* also inside another word.
C8_ParseOfText ==
    parse_pc = "done"
    => LET l   == parse_parts.lits
           mag == l[1].hundredths * 3600 + l[2].hundredths * 60
                  + l[3].hundredths
       IN  /\ parse_out.ok <=> Len(l) >= 3
           /\ Len(l) >= 3
              => parse_out.value =
                    IF PartsCarrySW(parse_parts) THEN -mag ELSE mag

\* A text of four numbers that ends with the word East was read negative.
C8_Witness ==
    /\ parse_pc = "done"
    /\ Len(parse_parts.lits) = 4
    /\ parse_parts.suffix.text = <<"E", "a", "s", "t">>
    /\ ~parse_parts.prefix.sw
    /\ \A k \in 1..3 : ~parse_parts.seps[k].sw
    /\ parse_out.ok
    /\ parse_out.value < 0

---------------------------------------------------------------------------
(* Claim about generate_unique_colors, checked under SpecColors *)

\* The channels of a '#rrggbb' text, as the three two-character texts.
ChannelsOf(c) == {SubSeq(c, 2, 3), SubSeq(c, 4, 5), SubSeq(c, 6, 7)}

\* C9: generate_unique_colors(n) is empty for n = 0, has n colours for every
\* n, comes from hue i/n at saturation 0.7 and lightness 0.5 (every colour
\* has d8 as its largest and 26 as its smallest channel, the first is the
\* red of hue 0, and n = 3, 4 give the colours of hues 0, 1/3, 2/3 and
\* 0, 1/4, 1/2, 3/4), and for n <= 360 the n colours are pairwise distinct.
C9_PaletteDistinct ==
    col_pc = "done"
    => /\ Len(col_out) = col_n
       /\ col_n = 0 => col_out = <<>>
       /\ \A k \in 1..Len(col_out) :
             /\ Len(col_out[k]) = 7 /\ col_out[k][1] = "#"
             /\ <<"d", "8">> \in ChannelsOf(col_out[k])
             /\ <<"2", "6">> \in ChannelsOf(col_out[k])
       /\ col_n >= 1 => col_out[1] = <<"#", "d", "8", "2", "6", "2", "6">>
       /\ col_n = 3
          => col_out = << <<"#", "d", "8", "2", "6", "2", "6">>,
                          <<"#", "2", "6", "d", "8", "2", "6">>,
                          <<"#", "2", "6", "2", "6", "d", "8">> >>
       /\ col_n = 4
          => col_out = << <<"#", "d", "8", "2", "6", "2", "6">>,
                          <<"#", "7", "f", "d", "8", "2", "6">>,
                          <<"#", "2", "6", "d", "8", "d", "8">>,
                          <<"#", "7", "f", "2", "6", "d", "8">> >>
       /\ col_n <= 360
          => Cardinality({col_out[k] : k \in 1..Len(col_out)}) = col_n

\* 360 colours were generated.
C9_Witness ==
    /\ col_pc = "done"
    /\ col_n = 360
    /\ Len(col_out) = 360
    /\ col_out[181] = <<"#", "2", "6", "d", "8", "d", "8">>

---------------------------------------------------------------------------
(* Claim about the viewport, checked under SpecViewport *)

\* C10 as claimed: the limits each composer sets are square,
\* maxx_buffered - minx_buffered = maxy_buffered - miny_buffered.
C10_ViewportSquare ==
    vp_pc = "done"
    => vp_box.maxx - vp_box.minx = vp_box.maxy - vp_box.miny

\* C11 as claimed: every input point lies strictly inside the limits the
\* composer sets, and the limits never have zero width or zero height (a
\* zero extent falls back to a fixed margin).
C11_PointsStrictlyInside ==
    vp_pc = "done"
    => /\ \A p \in vp_points :
             /\ vp_box.minx < p[1] /\ p[1] < vp_box.maxx
             /\ vp_box.miny < p[2] /\ p[2] < vp_box.maxy
       /\ vp_box.maxx - vp_box.minx > 0
       /\ vp_box.maxy - vp_box.miny > 0

---------------------------------------------------------------------------
(* Claims about plot_map_with_contextily, checked under SpecPlot *)

\* C12: a call with an empty sequence of locations is a successful no-op.  It
\* prints the one diagnostic and nothing else (so no tile request was made),
\* raises nothing, creates no figure and draws and writes nothing, whatever
\* the network and the file system would have done.
C12_EmptyCallIsNoOp ==
    (plot_pc # "input" /\ plot_locations = <<>>)
    => /\ plot_pc = "returned"
       /\ plot_out.raised = FALSE
       /\ plot_out.prints = <<"no_locations">>
       /\ plot_out.figure = "none"
       /\ plot_out.artifact.markers = <<>>
       /\ plot_out.artifact.legend = <<>>
       /\ plot_out.artifact.basemap = FALSE
       /\ plot_out.artifact.saved = FALSE

\* The call with no location returned, in a run where the tile request and
\* the file write would both have succeeded.
C12_Witness ==
    /\ plot_pc = "returned"
    /\ plot_locations = <<>>
    /\ plot_env.basemap_ok /\ plot_env.save_ok
    /\ plot_out.prints = <<"no_locations">>

\* C13: a failed basemap request is not fatal.  When the request fails on a
\* call with locations, the failure is printed and does not leave the call;
\* there is one marker and one legend entry per location, in order, and the
\* image is written and the call returns whenever the write itself succeeds:
\* the result is that of the run where the request succeeded, except for the
\* basemap layer and the diagnostic.
C13_BasemapFailureNonFatal ==
    (plot_pc # "input" /\ plot_locations # <<>> /\ ~plot_env.basemap_ok)
    => LET n       == Len(plot_locations)
           success == plot_map_with_contextily(plot_locations, TRUE,
                                               plot_env.save_ok)
       IN  /\ \E k \in 1..Len(plot_out.prints) :
                 plot_out.prints[k] = "basemap_error"
           /\ plot_out.artifact.basemap = FALSE
           /\ Len(plot_out.artifact.markers) = n
           /\ Len(plot_out.artifact.legend) = n
           /\ \A k \in 1..n :
                 /\ plot_out.artifact.markers[k].label = plot_locations[k].label
                 /\ plot_out.artifact.markers[k].color = plot_locations[k].color
                 /\ plot_out.artifact.legend[k].label = plot_locations[k].label
                 /\ plot_out.artifact.legend[k].color = plot_locations[k].color
           /\ plot_out.raised => ~plot_env.save_ok
           /\ plot_env.save_ok
              => /\ plot_pc = "returned"
                 /\ plot_out.artifact.saved
                 /\ plot_out.figure = "closed"
           /\ plot_out.artifact = [success.artifact EXCEPT !.basemap = FALSE]
           /\ plot_out.raised = success.raised
           /\ plot_out.figure = success.figure

\* A call with three locations returned after a failed basemap request, with
\* three markers, three legend entries and the image written.
C13_Witness ==
    /\ plot_pc = "returned"
    /\ Len(plot_locations) = 3
    /\ ~plot_env.basemap_ok
    /\ plot_out.artifact.saved
    /\ ~plot_out.artifact.basemap
    /\ Len(plot_out.artifact.markers) = 3
    /\ Len(plot_out.artifact.legend) = 3

---------------------------------------------------------------------------
(* Claims about main from the loop to the rendered map, checked under Spec *)

\* The indices of the images with valid GPS data among the first n, in
\* processing order.
RECURSIVE ValidUpTo(_, _)
ValidUpTo(imgs, n) ==
    IF n = 0 THEN <<>>
    ELSE IF HasValidGps(imgs[n]) THEN Append(ValidUpTo(imgs, n - 1), n)
    ELSE ValidUpTo(imgs, n - 1)

\* exiftool answered with a record that has no GPS fields
HasNoGpsFields(run) ==
    IsRecord(run) /\ run.lat.t = "none" /\ run.lon.t = "none"

\* C14: once main has drawn the map, the map has exactly one marker and one
\* legend entry per image with valid coordinates, in processing order; each
\* legend entry carries the label of that image and the colour of its
\* marker.  An image without GPS fields adds no marker and no legend entry
\* and is never the image at which main fails.
C14_OneMarkerPerValidImage ==
    /\ figure # "none"
       => LET valid == ValidUpTo(images, Len(images))
          IN  /\ Len(artifact.markers) = Len(valid)
              /\ Len(artifact.legend) = Len(valid)
              /\ \A k \in 1..Len(valid) :
                    /\ artifact.markers[k].label = valid[k]
                    /\ artifact.legend[k].label = valid[k]
                    /\ artifact.legend[k].color = artifact.markers[k].color
    /\ (pc = "crashed" /\ idx <= Len(images))
       => ~HasNoGpsFields(images[idx])

\* Three images, the second without GPS fields: main ran to its end and the
\* saved map has the markers and legend entries of images 1 and 3.
C14_Witness ==
    /\ pc = "done"
    /\ Len(images) = 3
    /\ HasValidGps(images[1])
    /\ HasNoGpsFields(images[2])
    /\ HasValidGps(images[3])
    /\ artifact.saved
    /\ Len(artifact.markers) = 2
    /\ Len(artifact.legend) = 2
    /\ artifact.markers[1].label = 1 /\ artifact.markers[2].label = 3
    /\ artifact.legend[1].label = 1 /\ artifact.legend[2].label = 3

Black == <<"#", "0", "0", "0", "0", "0", "0">>

\* C15: while main collects the locations every colour is unset; from the
\* moment plot_map_with_contextily is called the i-th location carries the
\* i-th colour of generate_unique_colors(n) for the n locations collected,
\* which is neither unset nor the '#000000' fallback, and those are the
\* colours of the markers drawn.
C15_ColorsByPosition ==
    LET n       == Len(photo_locations)
        palette == generate_unique_colors(n, Saturation, Lightness)
    IN  /\ (pc \in {"scan", "loop", "colors"}
            \/ (pc = "crashed" /\ figure = "none"))
           => \A k \in 1..n : photo_locations[k].color = NoColor
        /\ (pc \in {"plot", "export"} \/ figure # "none")
           => /\ n >= 1
              /\ Len(palette) = n
              /\ \A k \in 1..n :
                    /\ photo_locations[k].color = palette[k]
                    /\ photo_locations[k].color # NoColor
                    /\ photo_locations[k].color # Black
              /\ photo_locations[1].color
                    = <<"#", "d", "8", "2", "6", "2", "6">>
              /\ n = 2 => photo_locations[2].color
                             = <<"#", "2", "6", "d", "8", "d", "8">>
              /\ n = 3 => photo_locations[3].color
                             = <<"#", "2", "6", "2", "6", "d", "8">>
        /\ figure # "none"
           => /\ Len(artifact.markers) = n
              /\ \A k \in 1..n :
                    artifact.markers[k].color = photo_locations[k].color

\* main is about to call plot_map_with_contextily with three locations
\* coloured #d82626, #26d826, #2626d8.
C15_Witness ==
    /\ pc = "plot"
    /\ Len(photo_locations) = 3
    /\ photo_locations[1].color = <<"#", "d", "8", "2", "6", "2", "6">>
    /\ photo_locations[2].color = <<"#", "2", "6", "d", "8", "2", "6">>
    /\ photo_locations[3].color = <<"#", "2", "6", "2", "6", "d", "8">>

---------------------------------------------------------------------------
(* Claim about the figure, checked under SpecPlot *)

\* C16 as claimed: a call of plot_map_with_contextily never ends, by return
\* or by an exception that leaves it, with the figure it created still open.
C16_FigureReleased ==
    plot_pc \in {"returned", "raised"} => plot_out.figure # "open"

---------------------------------------------------------------------------
(* Claim about the components decimal_to_dms prints, checked under SpecDms *)

\* C17 as claimed: the text decimal_to_dms returns is normalized: its
\* minutes are in 0..59 and its one-decimal seconds are in 0.0..59.9 (0..599
\* tenths), so the seconds never print as 60.0.
C17_DmsNormalized ==
    dms_pc # "input"
    => /\ dms_out.minutes \in 0..59
       /\ dms_out.tenths \in 0..599
       /\ dms_out.text
             = (((((IntToText(dms_out.degrees) \o <<"<deg>">>)
                   \o IntToText(dms_out.minutes)) \o <<"'">>)
                   \o TenthsText(dms_out.tenths)) \o <<"<dprime>">>)
                   \o <<dms_out.direction>>

===========================================================================
